---- MODULE Spec2Model ----
(***************************************************************************)
(* Traycer: the Plan/Task dependency model of PlanService, the helpers of  *)
(* utils/helpers.ts and the topological ordering of TracerLite.            *)
(*                                                                         *)
(* A plan is the record the TypeScript code builds; plan.tasks is the      *)
(* array of task objects.  A task object is referred to by its position   *)
(* (1-based) in plan.tasks where the code holds a reference to it.         *)
(*                                                                         *)
(* Untyped JSON coming from the generation collaborator is modelled by     *)
(* "raw" values: a raw scalar is a string, where the strings starting with *)
(* "#" stand for the values that are no JavaScript string ("#undefined"    *)
(* for an absent field); a raw array is a record [arr, items].             *)
(***************************************************************************)
EXTENDS Integers, Sequences, FiniteSets, TLC

\* ------------------------------------------------------------- bounds
MaxTasks == 2
MaxDeps == 2
MaxClock == 1

\* ------------------------------------------------------------- values
Ids == {"t1", "t2", "t3"}
TaskStatus == {"pending", "in-progress", "completed", "failed"}
PlanStatus == {"draft", "approved", "executing", "completed", "failed"}
Priorities == {"low", "medium", "high"}

Undefined == "#undefined"

\* JavaScript truthiness of a raw scalar: undefined/null and "" are falsy.
Falsy(v) == v \in {Undefined, ""}

\* a || b
OrElse(a, b) == IF Falsy(a) THEN b ELSE a

\* Array.isArray(x) ? x : []
ArrayOrEmpty(x) == IF x.arr THEN x.items ELSE <<>>

RawArray(s) == [arr |-> TRUE, items |-> s]
NotAnArray == [arr |-> FALSE, items |-> <<>>]

\* All sequences over S of length at most n.
SeqUpTo(S, n) == UNION {[1..k -> S] : k \in 0..n}

\* The dependency lists the inputs carry: at most n ids, none twice.
DepLists(S, n) == {s \in SeqUpTo(S, n) : \A i, j \in 1..Len(s) : s[i] = s[j] => i = j}

Range(s) == {s[i] : i \in 1..Len(s)}

\* Array.prototype.filter
RECURSIVE SelectSeqRec(_, _, _)
SelectSeqRec(s, keep, k) ==
  IF k > Len(s) THEN <<>>
  ELSE IF s[k] \in keep THEN <<s[k]>> \o SelectSeqRec(s, keep, k + 1)
  ELSE SelectSeqRec(s, keep, k + 1)

VARIABLES plan, now, ret, exec

vars == <<plan, now, ret, exec>>

\* TracerLite.currentPlan before a plan was created.
NoPlan == [id |-> Undefined, title |-> Undefined, description |-> Undefined,
           tasks |-> <<>>, created |-> 0, updated |-> 0, status |-> "draft"]

NoCall == [op |-> "none"]

\* Where the review-and-execute workflow stands: pc is "review" while
\* reviewAndIteratePlan asks for a choice, "approved" and "executing" after
\* the assignments of those statuses, "done" when executePlan has returned;
\* index is the 0-based position of the for loop of executePlan in plan.tasks.
InReview == [pc |-> "review", index |-> 0]

\* ------------------------------------------------- identifier generator
\* generateId(prefix): "<prefix>-<timestamp>-<random suffix>".  GenId(prefix, n)
\* is the n-th identifier the process can draw; the timestamp and the random
\* suffix make a drawn identifier differ from those in sight (`used`).
GenId(prefix, n) == prefix \o "-" \o ToString(n)

generateId(prefix, used) ==
  GenId(prefix, CHOOSE n \in 1..(Cardinality(used) + 1) :
                  /\ GenId(prefix, n) \notin used
                  /\ \A m \in 1..(n - 1) : GenId(prefix, m) \in used)

\* ------------------------------------------------------ task validation
NonStrings == {Undefined, "#number"}

IsString(v) == v \notin NonStrings

Blank == " "

\* String.prototype.trim().length === 0
TrimEmpty(v) == v \in {"", Blank}

\* helpers.ts validateTask: the list of errors, or "throws" when .trim is
\* called on a value that is no string (a TypeError).
validateTaskThrows(task) ==
  \/ ~Falsy(task.title) /\ ~IsString(task.title)
  \/ ~Falsy(task.description) /\ ~IsString(task.description)
  \/ ~Falsy(task.estimatedTime) /\ ~IsString(task.estimatedTime)

validateTask(task) ==
  (IF Falsy(task.title) \/ TrimEmpty(task.title)
     THEN <<"Task title is required">> ELSE <<>>)
  \o (IF Falsy(task.description) \/ TrimEmpty(task.description)
     THEN <<"Task description is required">> ELSE <<>>)
  \o (IF Falsy(task.priority) \/ task.priority \notin Priorities
     THEN <<"Task priority must be 'low', 'medium', or 'high'">> ELSE <<>>)
  \o (IF Falsy(task.estimatedTime) \/ TrimEmpty(task.estimatedTime)
     THEN <<"Task estimated time is required">> ELSE <<>>)

\* ---------------------------------------------------------- processTasks
\* A raw task entry of a payload: kind "null" is a null entry of the array.
RawTask(id, title, description, files, dependencies, status, estimatedTime, priority) ==
  [kind |-> "object", id |-> id, title |-> title, description |-> description,
   files |-> files, dependencies |-> dependencies, status |-> status,
   estimatedTime |-> estimatedTime, priority |-> priority]

\* The status every built task gets, whatever the payload says.
statusFromPayload(taskData) == OrElse(taskData.status, "pending")

InitialStatus(taskData) == "pending"

\* The body of the map callback of processTasks for entry taskData at
\* 0-based position index.
processTask(taskData, index, used) ==
  [id |-> OrElse(taskData.id, generateId("task", used)),
   title |-> OrElse(taskData.title, "Task " \o ToString(index + 1)),
   description |-> OrElse(taskData.description, "No description provided"),
   files |-> ArrayOrEmpty(taskData.files),
   dependencies |-> ArrayOrEmpty(taskData.dependencies),
   status |-> InitialStatus(taskData),
   estimatedTime |-> OrElse(taskData.estimatedTime, "30 minutes"),
   priority |-> IF taskData.priority \in Priorities THEN taskData.priority ELSE "medium"]

\* Reading a property of a null entry, or validateTask trimming a value that
\* is no string, throws a TypeError out of processTasks.
processTaskThrows(taskData, index, used) ==
  \/ taskData.kind = "null"
  \/ validateTaskThrows(processTask(taskData, index, used))

RECURSIVE processTasksFrom(_, _, _)
processTasksFrom(tasksData, k, done) ==
  IF k > Len(tasksData) THEN done
  ELSE processTasksFrom(tasksData, k + 1,
         Append(done, processTask(tasksData[k], k - 1, {done[i].id : i \in 1..Len(done)})))

processTasksThrows(tasksData) ==
  \E k \in 1..Len(tasksData) :
    processTaskThrows(tasksData[k], k - 1, {})

processTasks(tasksData) == processTasksFrom(tasksData, 1, <<>>)

\* ------------------------------------------------- task graph validator
\* tasks.find(t => t.id === id): the position of the first task with that
\* id, 0 when there is none (undefined).
find(tasks, id) ==
  LET S == {i \in 1..Len(tasks) : tasks[i].id = id}
  IN IF S = {} THEN 0 ELSE CHOOSE i \in S : \A j \in S : i <= j

\* recursionStack.delete(taskId) on the way out of hasCycle
leaveStackForgotten(st, taskId) == st

leaveStack(st, taskId) == [st EXCEPT !.recursionStack = @ \ {taskId}]

\* visited.has(taskId)
visitedForgotten(st, taskId) == FALSE

alreadyVisited(st, taskId) == taskId \in st.visited

\* hasCycle(taskId) of detectCircularDependencies.  st holds the closure's
\* visited, recursionStack and circularDeps; an entry "X -> Y" of
\* circularDeps is the pair <<X, Y>>.  st.expanded lists the task ids in the
\* order in which hasCycle goes past its two tests and looks the task up.
\* The result is the returned boolean and the state the call leaves.
RECURSIVE hasCycle(_, _, _), hasCycleLoop(_, _, _, _, _)
hasCycle(tasks, taskId, st) ==
  IF taskId \in st.recursionStack THEN [found |-> TRUE, st |-> st]
  ELSE IF alreadyVisited(st, taskId) THEN [found |-> FALSE, st |-> st]
  ELSE LET st1 == [st EXCEPT !.visited = @ \cup {taskId},
                             !.recursionStack = @ \cup {taskId},
                             !.expanded = Append(@, taskId)]
           i == find(tasks, taskId)
           r == IF i = 0 THEN [found |-> FALSE, st |-> st1]
                ELSE hasCycleLoop(tasks, taskId, tasks[i].dependencies, 1, st1)
       IN IF r.found THEN r
          ELSE [found |-> FALSE, st |-> leaveStack(r.st, taskId)]

\* for (const depId of task.dependencies), from its k-th element on
hasCycleLoop(tasks, taskId, deps, k, st) ==
  IF k > Len(deps) THEN [found |-> FALSE, st |-> st]
  ELSE LET r == hasCycle(tasks, deps[k], st)
       IN IF r.found
          THEN [found |-> TRUE,
                st |-> [r.st EXCEPT !.circularDeps = Append(@, <<taskId, deps[k]>>)]]
          ELSE hasCycleLoop(tasks, taskId, deps, k + 1, r.st)

\* tasks.forEach(task => { if (!visited.has(task.id)) hasCycle(task.id) })
RECURSIVE detectFrom(_, _, _)
detectFrom(tasks, k, st) ==
  IF k > Len(tasks) THEN st
  ELSE IF alreadyVisited(st, tasks[k].id) THEN detectFrom(tasks, k + 1, st)
  ELSE detectFrom(tasks, k + 1, hasCycle(tasks, tasks[k].id, st).st)

\* One call of detectCircularDependencies: the state of its closure at the
\* end.
detectRun(tasks) ==
  detectFrom(tasks, 1, [visited |-> {}, recursionStack |-> {},
                        circularDeps |-> <<>>, expanded |-> <<>>])

detectCircularDependencies(tasks) == detectRun(tasks).circularDeps

\* new Set(tasks.map(t => t.id))
taskIdsButLast(tasks) == {tasks[i].id : i \in 1..(Len(tasks) - 1)}

taskIds(tasks) == {tasks[i].id : i \in 1..Len(tasks)}

\* The entries of one task, "<id> depends on non-existent task <depId>" as
\* the pair <<id, depId>>, in the order of its dependencies.
RECURSIVE invalidOfTask(_, _, _, _)
invalidOfTask(task, ids, k, acc) ==
  IF k > Len(task.dependencies) THEN acc
  ELSE invalidOfTask(task, ids, k + 1,
         IF task.dependencies[k] \notin ids
           THEN Append(acc, <<task.id, task.dependencies[k]>>) ELSE acc)

RECURSIVE invalidFrom(_, _, _, _)
invalidFrom(tasks, ids, k, acc) ==
  IF k > Len(tasks) THEN acc
  ELSE invalidFrom(tasks, ids, k + 1, invalidOfTask(tasks[k], ids, 1, acc))

findInvalidDependencies(tasks) == invalidFrom(tasks, taskIds(tasks), 1, <<>>)

\* validatePlan: the issues it collects and logs as warnings.
validatePlan(tasks) ==
  (IF Len(detectCircularDependencies(tasks)) > 0
     THEN <<"Circular dependencies detected">> ELSE <<>>)
  \o (IF Len(findInvalidDependencies(tasks)) > 0
     THEN <<"Invalid dependencies found">> ELSE <<>>)
  \o (IF Len(tasks) = 0 THEN <<"Plan contains no tasks">> ELSE <<>>)

\* validatePlan returns nothing and throws nothing, whatever the issues.
validatePlanRejects(tasks) == validatePlan(tasks) # <<>>

validatePlanThrows(tasks) == FALSE

\* ------------------------------------------------- execution scheduler
\* new Map(tasks.map(task => [task.id, task])).get(id): a later entry with
\* the same key replaces an earlier one; 0 when the key is absent.
taskMapGet(tasks, id) ==
  LET S == {i \in 1..Len(tasks) : tasks[i].id = id}
  IN IF S = {} THEN 0 ELSE CHOOSE i \in S : \A j \in S : j <= i

\* visit(taskId) of topologicalSort.  st holds visited, visiting and result;
\* result lists the task objects by their position in tasks.
RECURSIVE visit(_, _, _), visitDeps(_, _, _, _)

\* The block of `if (task)`: the dependencies are visited, then the task is
\* pushed on result.
visitFoundPushingFirst(tasks, i, taskId, st1) ==
  LET st2 == visitDeps(tasks, tasks[i].dependencies, 1,
                       [st1 EXCEPT !.result = Append(@, i)])
  IN [visiting |-> st2.visiting \ {taskId},
      visited |-> st2.visited \cup {taskId},
      result |-> st2.result]

visitFound(tasks, i, taskId, st1) ==
  LET st2 == visitDeps(tasks, tasks[i].dependencies, 1, st1)
  IN [visiting |-> st2.visiting \ {taskId},
      visited |-> st2.visited \cup {taskId},
      result |-> Append(st2.result, i)]

visit(tasks, taskId, st) ==
  IF taskId \in st.visiting THEN st
  ELSE IF taskId \in st.visited THEN st
  ELSE LET st1 == [st EXCEPT !.visiting = @ \cup {taskId}]
           i == taskMapGet(tasks, taskId)
       IN IF i = 0 THEN st1
          ELSE visitFound(tasks, i, taskId, st1)

\* task.dependencies.forEach(depId => visit(depId)), from the k-th on
visitDeps(tasks, deps, k, st) ==
  IF k > Len(deps) THEN st
  ELSE visitDeps(tasks, deps, k + 1, visit(tasks, deps[k], st))

RECURSIVE visitFrom(_, _, _)
visitFrom(tasks, k, st) ==
  IF k > Len(tasks) THEN st
  ELSE visitFrom(tasks, k + 1, visit(tasks, tasks[k].id, st))

\* The positions (in tasks) of the tasks of the returned array, in order.
topologicalSort(tasks) ==
  visitFrom(tasks, 1, [visiting |-> {}, visited |-> {}, result |-> <<>>]).result

\* depTask.status === 'completed'
isCompletedNever(depTask) == FALSE

isCompleted(depTask) == depTask.status = "completed"

\* helpers.ts canExecuteTask
canExecuteTask(task, p) ==
  IF Len(task.dependencies) = 0 THEN TRUE
  ELSE \A k \in 1..Len(task.dependencies) :
         LET i == find(p.tasks, task.dependencies[k])
         IN i # 0 /\ isCompleted(p.tasks[i])

\* helpers.ts getExecutableTasks: the positions of the returned tasks.
RECURSIVE filterExecutable(_, _)
filterExecutable(p, k) ==
  IF k > Len(p.tasks) THEN <<>>
  ELSE (IF p.tasks[k].status = "pending" /\ canExecuteTask(p.tasks[k], p)
          THEN <<k>> ELSE <<>>) \o filterExecutable(p, k + 1)

getExecutableTasks(p) == filterExecutable(p, 1)

\* planService.ts getExecutableTaskIds: completedTaskIds is the set of the
\* ids of the tasks with status completed, not of all tasks.
allTaskIds(p) == {p.tasks[i].id : i \in 1..Len(p.tasks)}

completedTaskIds(p) ==
  {p.tasks[i].id : i \in {j \in 1..Len(p.tasks) : p.tasks[j].status = "completed"}}

\* pendingTasks.filter(every dependency id is in completedTaskIds).map(id)
RECURSIVE filterExecutableIds(_, _)
filterExecutableIds(p, k) ==
  IF k > Len(p.tasks) THEN <<>>
  ELSE (IF /\ p.tasks[k].status = "pending"
           /\ \A d \in 1..Len(p.tasks[k].dependencies) :
                p.tasks[k].dependencies[d] \in completedTaskIds(p)
          THEN <<p.tasks[k].id>> ELSE <<>>) \o filterExecutableIds(p, k + 1)

getExecutableTaskIds(p) == filterExecutableIds(p, 1)

\* ---------------------------------------------------------- plan builder
\* The requirement text the session gathered.
Requirements == "requirements"

\* The fallback plan with the defaults processTasks gives a task.
createFallbackPlanWithDefaults(requirements, t) ==
  [id |-> generateId("plan", {}),
   title |-> "Manual Implementation Plan",
   description |-> requirements,
   tasks |-> <<[id |-> generateId("task", {}),
                title |-> "Implement requirements",
                description |-> "No description provided",
                files |-> <<>>,
                dependencies |-> <<>>,
                status |-> "pending",
                estimatedTime |-> "30 minutes",
                priority |-> "medium"]>>,
   created |-> t, updated |-> t, status |-> "draft"]

createFallbackPlan(requirements, t) ==
  [id |-> generateId("plan", {}),
   title |-> "Manual Implementation Plan",
   description |-> requirements,
   tasks |-> <<[id |-> generateId("task", {}),
                title |-> "Implement requirements",
                description |-> requirements,
                files |-> <<>>,
                dependencies |-> <<>>,
                status |-> "pending",
                estimatedTime |-> "60 minutes",
                priority |-> "high"]>>,
   created |-> t, updated |-> t, status |-> "draft"]

\* A reply of the generation collaborator to the planning prompt:
\*   kind "none"    no reply (the call failed, or the reply is the empty string)
\*   kind "garbage" text from which extractJsonFromResponse gets null
\*   kind "object"  text holding the JSON object planData
\* planData.tasks is [kind, items]: "absent" (or another falsy value),
\* "array", or "other" (a truthy value that is no array).
PlanReply(title, description, tasksKind, items) ==
  [kind |-> "object", title |-> title, description |-> description,
   tasks |-> [kind |-> tasksKind, items |-> items]]

NoReply == [kind |-> "none", title |-> Undefined, description |-> Undefined,
            tasks |-> [kind |-> "absent", items |-> <<>>]]

GarbageReply == [NoReply EXCEPT !.kind = "garbage"]

\* planData.tasks || []
tasksOrEmpty(planData) ==
  IF planData.tasks.kind = "absent" THEN <<>> ELSE planData.tasks.items

\* The try block of parsePlanResponse throws: no JSON, tasksData.map is not
\* a function, processTasks throws, or validatePlan does.
parsePlanThrows(reply) ==
  \/ reply.kind = "garbage"
  \/ reply.tasks.kind = "other"
  \/ processTasksThrows(tasksOrEmpty(reply))
  \/ validatePlanThrows(processTasks(tasksOrEmpty(reply)))

parsePlanResponse(reply, requirements, t) ==
  IF parsePlanThrows(reply) THEN createFallbackPlan(requirements, t)
  ELSE [id |-> generateId("plan", {}),
        title |-> OrElse(reply.title, "Generated Implementation Plan"),
        description |-> OrElse(reply.description, requirements),
        tasks |-> processTasks(tasksOrEmpty(reply)),
        created |-> t, updated |-> t, status |-> "draft"]

createPlan(requirements, reply, t) ==
  IF reply.kind = "none" THEN createFallbackPlan(requirements, t)
  ELSE parsePlanResponse(reply, requirements, t)

\* ---------------------------------------------------------- plan mutator
\* A reply to the modification prompt or to the new-task prompt: "garbage"
\* (JSON.parse throws) or an "object" with the raw fields of `fields`, where
\* Undefined (NotAnArray for files and dependencies) is an absent field.
TaskReply(fields) == [kind |-> "object", fields |-> fields]

NoFields == [kind |-> "object", id |-> Undefined, title |-> Undefined,
             description |-> Undefined, files |-> NotAnArray,
             dependencies |-> NotAnArray, status |-> Undefined,
             estimatedTime |-> Undefined, priority |-> Undefined]

GarbageTaskReply == [kind |-> "garbage", fields |-> NoFields]

\* A reply without braces that JSON.parse accepts: a number such as 42, or
\* null.  Every property read of the parsed value gives undefined (a read of
\* null throws), and spreading it adds nothing.
NumberTaskReply == [kind |-> "number", fields |-> NoFields]

NullTaskReply == [kind |-> "null", fields |-> NoFields]

\* The try block of addTask throws: JSON.parse does, or newTaskData is null.
addTaskThrows(reply) == reply.kind \in {"garbage", "null"}

\* The id of the merged task: the spread is followed by id: plan.tasks[taskIndex].id
mergedIdFromReply(old, modifiedTask) ==
  IF modifiedTask.id = Undefined THEN old.id ELSE modifiedTask.id

mergedId(old, modifiedTask) == old.id

\* { ...plan.tasks[taskIndex], ...modifiedTask, id: plan.tasks[taskIndex].id }
mergeTask(old, modifiedTask) ==
  [id |-> mergedId(old, modifiedTask),
   title |-> IF modifiedTask.title = Undefined THEN old.title ELSE modifiedTask.title,
   description |-> IF modifiedTask.description = Undefined
                     THEN old.description ELSE modifiedTask.description,
   files |-> IF modifiedTask.files.arr THEN modifiedTask.files.items ELSE old.files,
   dependencies |-> IF modifiedTask.dependencies.arr
                      THEN modifiedTask.dependencies.items ELSE old.dependencies,
   status |-> IF modifiedTask.status = Undefined THEN old.status ELSE modifiedTask.status,
   estimatedTime |-> IF modifiedTask.estimatedTime = Undefined
                       THEN old.estimatedTime ELSE modifiedTask.estimatedTime,
   priority |-> IF modifiedTask.priority = Undefined
                  THEN old.priority ELSE modifiedTask.priority]

\* taskIndex is 0-based, as in the code.
modifyTask(p, taskIndex, reply, t) ==
  IF taskIndex < 0 \/ taskIndex >= Len(p.tasks) THEN p
  ELSE IF reply.kind = "garbage" THEN p
  ELSE [p EXCEPT !.tasks[taskIndex + 1] = mergeTask(@, reply.fields),
                 !.updated = t]

\* The task addTask builds takes no id from the reply.
newTaskKeepingReplyId(newTaskData, taskDescription, used) ==
  [id |-> OrElse(newTaskData.id, generateId("task", used)),
   title |-> OrElse(newTaskData.title, "New Task"),
   description |-> OrElse(newTaskData.description, taskDescription),
   files |-> ArrayOrEmpty(newTaskData.files),
   dependencies |-> ArrayOrEmpty(newTaskData.dependencies),
   status |-> "pending",
   estimatedTime |-> OrElse(newTaskData.estimatedTime, "30 minutes"),
   priority |-> IF newTaskData.priority \in Priorities
                  THEN newTaskData.priority ELSE "medium"]

newTask(newTaskData, taskDescription, used) ==
  [id |-> generateId("task", used),
   title |-> OrElse(newTaskData.title, "New Task"),
   description |-> OrElse(newTaskData.description, taskDescription),
   files |-> ArrayOrEmpty(newTaskData.files),
   dependencies |-> ArrayOrEmpty(newTaskData.dependencies),
   status |-> "pending",
   estimatedTime |-> OrElse(newTaskData.estimatedTime, "30 minutes"),
   priority |-> IF newTaskData.priority \in Priorities
                  THEN newTaskData.priority ELSE "medium"]

addTask(p, taskDescription, reply, t) ==
  IF addTaskThrows(reply) THEN p
  ELSE [p EXCEPT !.tasks = Append(@, newTask(reply.fields, taskDescription,
                                             {p.tasks[i].id : i \in 1..Len(p.tasks)})),
                 !.updated = t]

\* plan.tasks.splice(taskIndex, 1): one task is removed, not every task
\* from taskIndex on as splice(taskIndex) does.
spliceToEnd(tasks, taskIndex) == SubSeq(tasks, 1, taskIndex)

splice(tasks, taskIndex) ==
  [k \in 1..(Len(tasks) - 1) |-> IF k <= taskIndex THEN tasks[k] ELSE tasks[k + 1]]

\* task.dependencies.filter(depId => depId !== removedTask.id)
scrubNothing(deps, removedId) == deps

scrub(deps, removedId) == SelectSeqRec(deps, Range(deps) \ {removedId}, 1)

removeTask(p, taskIndex, t) ==
  IF taskIndex >= 0 /\ taskIndex < Len(p.tasks)
  THEN LET removedTask == p.tasks[taskIndex + 1]
           rest == splice(p.tasks, taskIndex)
       IN [p EXCEPT !.tasks = [k \in 1..Len(rest) |->
                                 [rest[k] EXCEPT !.dependencies = scrub(@, removedTask.id)]],
                    !.updated = t]
  ELSE p

\* The else branch of updateTaskStatus leaves the plan as it is.
updateTaskStatusStamping(p, taskId, status, t) ==
  LET i == find(p.tasks, taskId)
  IN IF i # 0 THEN [p EXCEPT !.tasks[i].status = status, !.updated = t]
     ELSE [p EXCEPT !.updated = t]

updateTaskStatus(p, taskId, status, t) ==
  LET i == find(p.tasks, taskId)
  IN IF i # 0 THEN [p EXCEPT !.tasks[i].status = status, !.updated = t]
     ELSE p

\* ---------------------------------------------------------- task executor
\* One run of TaskExecutor.executeTask(task), by the path it takes: the
\* status it leaves in the task, the boolean it returns and the number of
\* generateContent calls it makes for code.
\*   "verified"        the first implementation passes verification
\*   "accept"          it does not pass, the user accepts it
\*   "skip"            it does not pass, the user skips the task
\*   "retry verified"  it does not pass, the retried implementation passes
\*   "retry rejected"  it does not pass, nor does the retried implementation
\*   "error"           an exception reaches the catch clause of executeTask
\* The 'review' choice shows the code and asks the user again; asked is the
\* number of times the user was asked.
ExecutionPath(name, status, success, generations, asked) ==
  [name |-> name, status |-> status, success |-> success,
   generations |-> generations, asked |-> asked]

\* The number of times in a row the user may choose 'review'.
MaxReviews == 1

\* retryTaskExecution(task, verificationResult): one more generateContent
\* call for code, and one verification of its result.
retryTaskExecution(retryPassed, generations, asked) ==
  IF retryPassed
  THEN ExecutionPath("retry verified", "completed", TRUE, generations + 1, asked)
  ELSE ExecutionPath("retry rejected", "failed", FALSE, generations + 1, asked)

\* The 'review' branch of handleVerificationFailure prints originalCode.
generationsAfterReviewRegenerating(generations) == generations + 1

generationsAfterReview(generations) == generations

\* handleVerificationFailure(task, originalCode, verificationResult): the
\* user's answers are retryChoices, of which the k-th is read now.
RECURSIVE handleVerificationFailure(_, _, _, _)
handleVerificationFailure(retryChoices, k, retryPassed, generations) ==
  LET retryChoice == retryChoices[k]
  IN CASE retryChoice = "retry" -> retryTaskExecution(retryPassed, generations, k)
       [] retryChoice = "accept" ->
            ExecutionPath("accept", "completed", TRUE, generations, k)
       [] retryChoice = "skip" ->
            ExecutionPath("skip", "pending", FALSE, generations, k)
       [] retryChoice = "review" ->
            handleVerificationFailure(retryChoices, k + 1, retryPassed,
                                      generationsAfterReview(generations))
       [] OTHER -> ExecutionPath("failed", "failed", FALSE, generations, k)

\* What happens during one executeTask: an exception is thrown or not, the
\* verification of the first implementation passes or not, the user's
\* answers to getVerificationFailureAction (any number of 'review', then
\* another choice), and the verification of the retried implementation.
ExecutionScript(throws, passed, retryChoices, retryPassed) ==
  [throws |-> throws, passed |-> passed, retryChoices |-> retryChoices,
   retryPassed |-> retryPassed]

RetryChoices ==
  {[k \in 1..(n + 1) |-> IF k <= n THEN "review" ELSE last] :
     n \in 0..MaxReviews, last \in {"retry", "accept", "skip"}}

ExecutionScripts ==
  {ExecutionScript(throws, passed, retryChoices, retryPassed) :
     throws \in BOOLEAN, passed \in BOOLEAN, retryChoices \in RetryChoices,
     retryPassed \in BOOLEAN}

\* executeTask(task) on a script: one generateContent call for code, then
\* the verification.
executeTaskPath(script) ==
  IF script.throws THEN ExecutionPath("error", "failed", FALSE, 1, 0)
  ELSE IF script.passed THEN ExecutionPath("verified", "completed", TRUE, 1, 0)
  ELSE handleVerificationFailure(script.retryChoices, 1, script.retryPassed, 1)

ExecutionPaths == {executeTaskPath(script) : script \in ExecutionScripts}

executeTask(task, path) == [task EXCEPT !.status = path.status]

\* executePlan up to its loop: plan.status = 'executing'
executePlanStartSilent(p) == p

executePlanStart(p) == [p EXCEPT !.status = "executing"]

\* executePlan after executeTask returned `success` for the task at x.index:
\* the loop goes on, or plan.status = 'failed' and executePlan returns.
resumeAnyway(p, x, success) ==
  [plan |-> p, exec |-> [x EXCEPT !.index = @ + 1]]

resume(p, x, success) ==
  IF success THEN [plan |-> p, exec |-> [x EXCEPT !.index = @ + 1]]
  ELSE [plan |-> [p EXCEPT !.status = "failed"], exec |-> [x EXCEPT !.pc = "done"]]

\* executePlan when the loop is over: plan.status = 'completed'
executePlanEnd(p) == [p EXCEPT !.status = "completed"]

\* ---------------------------------------------------------- persistence
\* Date.prototype.toISOString (through JSON.stringify) and new Date(text)
toISOString(t) == "iso-" \o ToString(t)

newDate(text) == CHOOSE t \in 0..MaxClock : toISOString(t) = text

\* JSON.stringify of a task: the object JSON.parse gives back.  The arrays
\* stay arrays, the strings stay strings.
taskToJsonWithoutDependencies(task) ==
  RawTask(task.id, task.title, task.description, RawArray(task.files),
          NotAnArray, task.status, task.estimatedTime, task.priority)

taskToJson(task) ==
  RawTask(task.id, task.title, task.description, RawArray(task.files),
          RawArray(task.dependencies), task.status, task.estimatedTime,
          task.priority)

\* exportPlan: the JSON text, as the value JSON.parse reads from it.  valid
\* says whether JSON.parse accepts the text, json what kind of value it reads:
\* an "object", "null", or an "other" value (a number, a string, a boolean,
\* an array), every property of which reads as undefined.
exportPlan(p) ==
  [valid |-> TRUE, json |-> "object", id |-> p.id, title |-> p.title, description |-> p.description,
   tasks |-> [kind |-> "array",
              items |-> [k \in 1..Len(p.tasks) |-> taskToJson(p.tasks[k])]],
   created |-> toISOString(p.created), updated |-> toISOString(p.updated),
   status |-> p.status]

\* Text that JSON.parse rejects.
InvalidJson == [valid |-> FALSE, json |-> "none", id |-> Undefined, title |-> Undefined,
                description |-> Undefined,
                tasks |-> [kind |-> "absent", items |-> <<>>],
                created |-> Undefined, updated |-> Undefined, status |-> Undefined]

JsonNull == [InvalidJson EXCEPT !.valid = TRUE, !.json = "null"]

JsonOther == [InvalidJson EXCEPT !.valid = TRUE, !.json = "other"]

\* The try block of importPlan throws: JSON.parse rejects the text, a property
\* of null is read, tasksData.map is no function, or processTasks throws.
importPlanThrows(planData) ==
  \/ ~planData.valid
  \/ planData.json = "null"
  \/ planData.tasks.kind = "other"
  \/ processTasksThrows(tasksOrEmpty(planData))
  \/ validatePlanThrows(processTasks(tasksOrEmpty(planData)))

\* importPlan when it does not throw.
importPlan(planData, t) ==
  [id |-> OrElse(planData.id, generateId("plan", {})),
   title |-> OrElse(planData.title, "Imported Plan"),
   description |-> OrElse(planData.description, "Imported plan"),
   tasks |-> processTasks(tasksOrEmpty(planData)),
   created |-> IF Falsy(planData.created) THEN t ELSE newDate(planData.created),
   updated |-> t,
   status |-> OrElse(planData.status, "draft")]

\* ---------------------------------------------------------------- inputs
\* Raw task entries of a payload that carry an id and a dependency array.
GraphRawTasks ==
  {RawTask(id, "A", "d", NotAnArray, RawArray(deps), Undefined, Undefined, Undefined) :
     id \in Ids, deps \in DepLists(Ids, MaxDeps)}

GraphReplies ==
  {PlanReply("T", Undefined, "array", items) :
     items \in SeqUpTo(GraphRawTasks, MaxTasks)}

\* The ids the edit and status inputs use, and their dependency lists.
EditIds == {"t1", "t2"}

EditRawTasks ==
  {RawTask(id, "A", "d", NotAnArray, RawArray(deps), Undefined, Undefined, Undefined) :
     id \in EditIds, deps \in DepLists(EditIds, MaxDeps)}

\* Replies to the planning prompt: no reply, or a payload of such tasks.
EditReplies ==
  {NoReply} \cup
  {PlanReply("T", Undefined, "array", items) :
     items \in SeqUpTo(EditRawTasks, MaxTasks)}

\* Replies to the modification prompt and to the new-task prompt: no JSON,
\* or an object that may carry an id and a dependency array.
EditTaskReplies ==
  {GarbageTaskReply} \cup
  {TaskReply([NoFields EXCEPT !.id = id, !.dependencies = deps]) :
     id \in {Undefined} \cup EditIds,
     deps \in {NotAnArray} \cup {RawArray(d) : d \in DepLists(EditIds, MaxDeps)}}

\* Replies to the modification prompt that carry a status.
StatusTaskReplies ==
  {TaskReply([NoFields EXCEPT !.status = st]) : st \in TaskStatus}

\* Payload tasks without dependencies, and the replies that carry them.
PlainRawTasks ==
  {RawTask(id, "A", "d", NotAnArray, NotAnArray, Undefined, Undefined, Undefined) :
     id \in EditIds}

PlainReplies ==
  {NoReply} \cup
  {PlanReply("T", Undefined, "array", items) :
     items \in SeqUpTo(PlainRawTasks, MaxTasks)}

\* Replies to the new-task prompt: no JSON, or an object without fields.
PlainTaskReplies == {GarbageTaskReply, TaskReply(NoFields)}

\* A reply holding JSON that is no object (a number, a string, an array):
\* extractJsonFromResponse returns it, and every property read of it gives
\* undefined.
NonObjectReply == [NoReply EXCEPT !.kind = "nonobject"]

\* A null entry of a tasks array.
NullTask == [NoFields EXCEPT !.kind = "null"]

\* The raw task entries of the builder inputs: an entry with no field but
\* what `id`, `status` and `priority` give, an entry with every field, and
\* an entry whose title is no string.
BuildRawTasks ==
  {NullTask} \cup
  {RawTask(id, shape[1], shape[2], shape[3], shape[4], status, shape[5], priority) :
     id \in {Undefined, "t1"},
     status \in {Undefined, "completed"},
     priority \in {Undefined, "low", "urgent"},
     shape \in {<<Undefined, Undefined, NotAnArray, NotAnArray, Undefined>>,
                <<"A", "d", RawArray(<<"f.ts">>), RawArray(<<"t1">>), "5 minutes">>,
                <<"#number", "d", NotAnArray, NotAnArray, Undefined>>}}

\* Replies to the planning prompt: none, no JSON, JSON that is no object, an
\* object without tasks or with tasks that is no array, and an object with a
\* tasks array.
BuildReplies ==
  {NoReply, GarbageReply, NonObjectReply} \cup
  {PlanReply(title, Undefined, kind, <<>>) :
     title \in {Undefined, "T"}, kind \in {"absent", "other"}} \cup
  {PlanReply("T", "D", "array", items) :
     items \in SeqUpTo(BuildRawTasks, MaxTasks)}

\* The texts given to importPlan: text that is no JSON, JSON that is no
\* object, and objects with or without id, status and tasks, the tasks being
\* absent, no array, or an array that may hold a null entry.
ImportTexts ==
  {InvalidJson, JsonNull, JsonOther} \cup
  {[valid |-> TRUE, json |-> "object", id |-> id, title |-> title,
    description |-> Undefined, tasks |-> tasks, created |-> created,
    updated |-> created, status |-> status] :
     id \in {Undefined, "p1"},
     title \in {Undefined, "T"},
     status \in {Undefined, "approved"},
     created \in {Undefined, toISOString(0)},
     tasks \in {[kind |-> k, items |-> <<>>] : k \in {"absent", "other"}} \cup
              {[kind |-> "array", items |-> items] :
                 items \in SeqUpTo({NullTask} \cup PlainRawTasks, MaxTasks)}}

\* The task numbers a user can give, as 0-based indexes: in range or not.
TaskIndexes == (0 - 1)..MaxTasks

\* ---------------------------------------------------------------- actions
Init ==
  /\ plan = NoPlan
  /\ now = 0
  /\ ret = NoCall
  /\ exec = InReview

\* TracerLite.run: the plan is created once, from the reply to the planning
\* prompt.
CreatePlan(Replies) ==
  /\ plan = NoPlan
  /\ \E reply \in Replies :
       /\ plan' = createPlan(Requirements, reply, now)
       /\ ret' = [op |-> "createPlan", reply |-> reply]
  /\ UNCHANGED <<now, exec>>

TopologicalSort ==
  /\ plan # NoPlan
  /\ ret' = [op |-> "topologicalSort", val |-> topologicalSort(plan.tasks)]
  /\ UNCHANGED <<plan, now, exec>>

DetectCircularDependencies ==
  /\ plan # NoPlan
  /\ ret' = [op |-> "detectCircularDependencies",
             val |-> detectCircularDependencies(plan.tasks),
             expanded |-> detectRun(plan.tasks).expanded]
  /\ UNCHANGED <<plan, now, exec>>

FindInvalidDependencies ==
  /\ plan # NoPlan
  /\ ret' = [op |-> "findInvalidDependencies",
             val |-> findInvalidDependencies(plan.tasks)]
  /\ UNCHANGED <<plan, now, exec>>

NextGraph ==
  \/ CreatePlan(GraphReplies)
  \/ TopologicalSort
  \/ DetectCircularDependencies
  \/ FindInvalidDependencies

\* The graph functions applied to the task list of a built plan.
SpecGraph == Init /\ [][NextGraph]_vars

NextBuild ==
  \/ CreatePlan(BuildReplies)

\* The Plan Builder on every kind of reply.
SpecBuild == Init /\ [][NextBuild]_vars

\* PlanService.modifyTask(plan, taskIndex, modification), the reply being
\* what generateContent returns.
ModifyTask(Replies) ==
  /\ plan # NoPlan
  /\ \E taskIndex \in TaskIndexes, reply \in Replies :
       /\ plan' = modifyTask(plan, taskIndex, reply, now)
       /\ ret' = [op |-> "modifyTask", taskIndex |-> taskIndex,
                  replyId |-> reply.fields.id,
                  reply |-> IF taskIndex < 0 \/ taskIndex >= Len(plan.tasks)
                              THEN "not asked" ELSE reply.kind,
                  outcome |-> IF taskIndex < 0 \/ taskIndex >= Len(plan.tasks)
                                THEN "invalid task number"
                              ELSE IF reply.kind = "garbage" THEN "error"
                              ELSE "modified"]
  /\ UNCHANGED <<now, exec>>

\* PlanService.addTask(plan, taskDescription)
AddTask(Replies) ==
  /\ plan # NoPlan
  /\ Len(plan.tasks) < MaxTasks
  /\ \E reply \in Replies :
       /\ plan' = addTask(plan, "new task", reply, now)
       /\ ret' = [op |-> "addTask", reply |-> reply.kind,
                  outcome |-> IF addTaskThrows(reply) THEN "error" ELSE "added"]
  /\ UNCHANGED <<now, exec>>

\* PlanService.removeTask(plan, taskIndex).  ret keeps the id of removedTask
\* and whether a remaining task listed it before the call.
RemoveTask ==
  /\ plan # NoPlan
  /\ \E taskIndex \in TaskIndexes :
       LET valid == taskIndex >= 0 /\ taskIndex < Len(plan.tasks)
           removedId == IF valid THEN plan.tasks[taskIndex + 1].id ELSE Undefined
       IN /\ plan' = removeTask(plan, taskIndex, now)
          /\ ret' = [op |-> "removeTask", taskIndex |-> taskIndex,
                     outcome |-> IF valid THEN "removed" ELSE "invalid task number",
                     removedId |-> removedId,
                     referenced |-> valid /\ \E k \in 1..Len(plan.tasks) :
                                      /\ k # taskIndex + 1
                                      /\ removedId \in Range(plan.tasks[k].dependencies)]
  /\ UNCHANGED <<now, exec>>

\* PlanService.updateTaskStatus(plan, taskId, status)
UpdateTaskStatus ==
  /\ plan # NoPlan
  /\ \E taskId \in EditIds, status \in TaskStatus :
       /\ plan' = updateTaskStatus(plan, taskId, status, now)
       /\ ret' = [op |-> "updateTaskStatus", taskId |-> taskId]
  /\ UNCHANGED <<now, exec>>

\* getExecutableTasks(plan)
GetExecutableTasks ==
  /\ plan # NoPlan
  /\ ret' = [op |-> "getExecutableTasks", val |-> getExecutableTasks(plan)]
  /\ UNCHANGED <<plan, now, exec>>

\* importPlan(exportPlan(plan)): the session restores the plan it saved.
ImportExportedPlan ==
  /\ plan # NoPlan
  /\ ~importPlanThrows(exportPlan(plan))
  /\ plan' = importPlan(exportPlan(plan), now)
  /\ ret' = [op |-> "importPlan"]
  /\ UNCHANGED <<now, exec>>

\* PlanService.importPlan(planJson): the caller gets a plan, or the error
\* 'Failed to import plan' and keeps the plan it had.
ImportPlan(Texts) ==
  /\ \E planData \in Texts :
       /\ plan' = IF importPlanThrows(planData) THEN plan
                  ELSE importPlan(planData, now)
       /\ ret' = [op |-> "importPlan", valid |-> planData.valid,
                  json |-> planData.json,
                  outcome |-> IF importPlanThrows(planData) THEN "raised"
                              ELSE "returned"]
  /\ UNCHANGED <<now, exec>>

\* Time passes between two calls.
Tick ==
  /\ now < MaxClock
  /\ now' = now + 1
  /\ UNCHANGED <<plan, ret, exec>>

\* The Plan Mutator on a built plan.  The clock stands still here.
Next ==
  \/ CreatePlan(EditReplies)
  \/ ModifyTask(EditTaskReplies)
  \/ AddTask(EditTaskReplies)
  \/ RemoveTask

Spec == Init /\ [][Next]_vars

\* Task statuses change and the executable tasks are asked for.
NextExec ==
  \/ CreatePlan(EditReplies)
  \/ ModifyTask(StatusTaskReplies)
  \/ UpdateTaskStatus
  \/ GetExecutableTasks

SpecExec == Init /\ [][NextExec]_vars

\* PlanService.getExecutableTaskIds(plan).  ret keeps the ids of the tasks
\* helpers getExecutableTasks returns for the same plan.
GetExecutableTaskIds ==
  /\ plan # NoPlan
  /\ ret' = [op |-> "getExecutableTaskIds", val |-> getExecutableTaskIds(plan),
             helper |-> [k \in 1..Len(getExecutableTasks(plan)) |->
                           plan.tasks[getExecutableTasks(plan)[k]].id]]
  /\ UNCHANGED <<plan, now, exec>>

\* The two scheduler queries on plans whose tasks have any status.
NextIds ==
  \/ CreatePlan(EditReplies)
  \/ ModifyTask(StatusTaskReplies)
  \/ GetExecutableTasks
  \/ GetExecutableTaskIds

SpecIds == Init /\ [][NextIds]_vars

\* A driver of the scheduler: it takes one of the tasks getExecutableTasks
\* returns and sets it to completed with updateTaskStatus.
DriverStep ==
  /\ plan # NoPlan
  /\ \E k \in Range(getExecutableTasks(plan)) :
       /\ plan' = updateTaskStatus(plan, plan.tasks[k].id, "completed", now)
       /\ ret' = [op |-> "driver", position |-> k, taskId |-> plan.tasks[k].id]
  /\ UNCHANGED <<now, exec>>

NextDriver ==
  \/ CreatePlan(EditReplies)
  \/ DriverStep

SpecDriver == Init /\ [][NextDriver]_vars

\* The driver goes on as long as getExecutableTasks returns a task.
SpecDriverFair == SpecDriver /\ WF_vars(DriverStep)

\* A plan is exported and imported again.  The clock stands still here.
NextRoundTrip ==
  \/ CreatePlan(EditReplies)
  \/ ModifyTask(StatusTaskReplies)
  \/ ImportExportedPlan

SpecRoundTrip == Init /\ [][NextRoundTrip]_vars

\* The operations that stamp plan.updated, while time passes.
NextClock ==
  \/ CreatePlan(PlainReplies)
  \/ ModifyTask(StatusTaskReplies)
  \/ RemoveTask
  \/ UpdateTaskStatus
  \/ Tick

SpecClock == Init /\ [][NextClock]_vars

\* Replies to the modification prompt or the new-task prompt that hold no
\* JSON object: empty or unparsable text, a number, null.
UnparsedTaskReplies == {GarbageTaskReply, NumberTaskReply, NullTaskReply}

\* The mutator fed with replies that hold no JSON object, or an object
\* without fields, while the clock advances.
NextReplies ==
  \/ CreatePlan(PlainReplies)
  \/ ModifyTask(UnparsedTaskReplies \cup {TaskReply(NoFields)})
  \/ AddTask(UnparsedTaskReplies \cup {TaskReply(NoFields)})
  \/ Tick

SpecReplies == Init /\ [][NextReplies]_vars

\* ------------------------------------------------ requirements validation
\* A text is the sequence of its characters.
toLowerCaseChar(c) ==
  CASE c = "A" -> "a" [] c = "D" -> "d" [] c = "I" -> "i" [] c = "K" -> "k"
    [] c = "L" -> "l" [] c = "N" -> "n" [] c = "O" -> "o" [] c = "T" -> "t"
    [] c = "V" -> "v" [] OTHER -> c

\* String.prototype.toLowerCase()
toLowerCase(text) == [k \in 1..Len(text) |-> toLowerCaseChar(text[k])]

\* String.prototype.includes(searchString)
includes(text, searchString) ==
  \E k \in 0..(Len(text) - Len(searchString)) :
    SubSeq(text, k + 1, k + Len(searchString)) = searchString

\* The text begins with searchString.
startsWith(text, searchString) ==
  /\ Len(text) >= Len(searchString)
  /\ SubSeq(text, 1, Len(searchString)) = searchString

\* GeminiService.validateRequirements: `validation` is what generateContent
\* returns, the model's reply or "" after an API error.
judgedValid(validation) ==
  includes(toLowerCase(validation), <<"v", "a", "l", "i", "d", ":">>)

geminiValidateRequirements(validation) ==
  [isValid |-> judgedValid(validation), feedback |-> validation]

\* UIService.confirmRequirements: choice y or yes, edit (editRequirements
\* ends with done or with cancel), anything else.
confirmRequirements(choice) ==
  CASE choice = "y" -> TRUE
    [] choice = "edit done" -> TRUE
    [] choice = "edit cancel" -> FALSE
    [] OTHER -> FALSE

\* RequirementsService.validateRequirements
validateRequirements(validation, choice) ==
  IF ~geminiValidateRequirements(validation).isValid THEN FALSE
  ELSE confirmRequirements(choice)

\* What the user types at "Describe your project requirements": the
\* UIService asks again until the trimmed text is not empty.
RequirementTexts == {"app", "todo list", Requirements}

\* Replies of the model to the validation prompt.
ValidationTexts ==
  {<<"V", "A", "L", "I", "D", ":", " ", "o", "k">>,
   <<"I", "N", "V", "A", "L", "I", "D", ":", " ", "n", "o">>,
   <<"i", "n", "v", "a", "l", "i", "d", ":", " ", "n", "o">>,
   <<"I", "n", "v", "a", "l", "i", "d", ":", " ", "n", "o">>,
   <<"v", "a", "l", "i", "d", ":", " ", "o", "k">>,
   <<"V", "a", "l", "i", "d", ":", " ", "o", "k">>,
   <<>>,
   <<"u", "n", "c", "l", "e", "a", "r">>,
   <<"V", "A", "L", "I", "D">>,
   <<"I", "N", "V", "A", "L", "I", "D">>,
   <<"N", "O", "T", " ", "V", "A", "L", "I", "D", ":", " ", "n", "o">>,
   <<"O", "K">>}

ConfirmChoices == {"y", "n", "edit done", "edit cancel"}

\* One turn of the while loop of gatherAndValidateRequirements.  ret keeps
\* the text, the reply, the choice (asked only after a valid verdict) and
\* the text the method returns, Undefined when the loop goes round again.
GatherAndValidateRequirements ==
  /\ plan = NoPlan
  /\ ~(ret.op = "gatherAndValidateRequirements" /\ ret.returned # Undefined)
  /\ \E requirements \in RequirementTexts, validation \in ValidationTexts,
        choice \in ConfirmChoices :
       LET asked == geminiValidateRequirements(validation).isValid
           isValid == validateRequirements(validation, choice)
       IN /\ ~asked => choice = "n"
          /\ ret' = [op |-> "gatherAndValidateRequirements",
                     requirements |-> requirements,
                     validation |-> validation,
                     judged |-> asked,
                     choice |-> IF asked THEN choice ELSE "not asked",
                     returned |-> IF isValid THEN requirements ELSE Undefined]
  /\ UNCHANGED <<plan, now, exec>>

\* TracerLite.run: createPlan(requirements) with the text that
\* gatherAndValidateRequirements returned.
CreatePlanFromRequirements ==
  /\ plan = NoPlan
  /\ ret.op = "gatherAndValidateRequirements"
  /\ ret.returned # Undefined
  /\ \E reply \in PlainReplies :
       /\ plan' = createPlan(ret.returned, reply, now)
       /\ ret' = [op |-> "createPlan", reply |-> reply]
  /\ UNCHANGED <<now, exec>>

\* TracerLite.run up to the built plan.
NextGather ==
  \/ GatherAndValidateRequirements
  \/ CreatePlanFromRequirements

SpecGather == Init /\ [][NextGather]_vars

\* reviewAndIteratePlan, choices 2, 3 and 4: the plan is edited and shown
\* again.
\* The plan is shown for review: reviewAndIteratePlan calls itself after
\* choices 2, 3 and 4 (and 6), and resolves after choices 1 and 5.
reviewingOrDone(x) == x.pc \in {"review", "done"}

reviewing(x) == x.pc = "review"

ReviewModifyTask ==
  /\ reviewing(exec)
  /\ ModifyTask(StatusTaskReplies)

ReviewAddTask ==
  /\ reviewing(exec)
  /\ AddTask(PlainTaskReplies)

ReviewRemoveTask ==
  /\ reviewing(exec)
  /\ RemoveTask

\* reviewAndIteratePlan, choice 1: plan.status = 'approved'
Approve ==
  /\ reviewing(exec)
  /\ plan # NoPlan
  /\ plan' = [plan EXCEPT !.status = "approved"]
  /\ exec' = [exec EXCEPT !.pc = "approved"]
  /\ ret' = [op |-> "approve"]
  /\ UNCHANGED now

\* reviewAndIteratePlan, choice 5: the plan is returned as it is.
Regenerate ==
  /\ reviewing(exec)
  /\ plan # NoPlan
  /\ exec' = [exec EXCEPT !.pc = "returned"]
  /\ ret' = [op |-> "regenerate"]
  /\ UNCHANGED <<plan, now>>

\* TaskExecutor.executePlan(plan), up to the loop over plan.tasks.
StartExecution ==
  /\ exec.pc = "approved"
  /\ plan' = executePlanStart(plan)
  /\ exec' = [exec EXCEPT !.pc = "executing", !.index = 0]
  /\ ret' = [op |-> "executePlan"]
  /\ UNCHANGED now

\* One iteration of the loop of executePlan: a pending task is executed, a
\* task that is not pending is passed over.
RunTask ==
  /\ exec.pc = "executing"
  /\ exec.index < Len(plan.tasks)
  /\ LET task == plan.tasks[exec.index + 1]
     IN IF task.status = "pending"
        THEN \E path \in ExecutionPaths :
               LET executed == [plan EXCEPT !.tasks[exec.index + 1] =
                                              executeTask(task, path)]
                   after == resume(executed, exec, path.success)
               IN /\ plan' = after.plan
                  /\ exec' = after.exec
                  /\ ret' = [op |-> "executeTask", index |-> exec.index,
                             path |-> path.name, success |-> path.success,
                             generations |-> path.generations,
                             asked |-> path.asked]
        ELSE /\ exec' = [exec EXCEPT !.index = @ + 1]
             /\ ret' = [op |-> "passOver", index |-> exec.index]
             /\ UNCHANGED plan
  /\ UNCHANGED now

\* The loop of executePlan is over.
FinishPlan ==
  /\ exec.pc = "executing"
  /\ exec.index >= Len(plan.tasks)
  /\ plan' = executePlanEnd(plan)
  /\ exec' = [exec EXCEPT !.pc = "done"]
  /\ ret' = [op |-> "executePlanEnd"]
  /\ UNCHANGED now

\* TracerLite.run: the plan is created, reviewed and edited, then approved
\* and executed.
NextFlow ==
  \/ CreatePlan(PlainReplies)
  \/ ReviewModifyTask
  \/ ReviewAddTask
  \/ ReviewRemoveTask
  \/ Approve
  \/ Regenerate
  \/ StartExecution
  \/ RunTask
  \/ FinishPlan

SpecFlow == Init /\ [][NextFlow]_vars

NextImport ==
  \/ ImportPlan(ImportTexts)

\* Plans are restored from any text.
SpecImport == Init /\ [][NextImport]_vars

\* The same workflow while time passes.
NextTimedFlow ==
  \/ CreatePlan(PlainReplies)
  \/ ReviewModifyTask
  \/ ReviewAddTask
  \/ ReviewRemoveTask
  \/ Approve
  \/ Regenerate
  \/ StartExecution
  \/ RunTask
  \/ FinishPlan
  \/ Tick

SpecTimedFlow == Init /\ [][NextTimedFlow]_vars

\* A built plan whose tasks have dependencies is approved and executed.
NextRun ==
  \/ CreatePlan(EditReplies)
  \/ Approve
  \/ StartExecution
  \/ RunTask
  \/ FinishPlan

SpecRun == Init /\ [][NextRun]_vars

\* ------------------------------------------------ the dependency graph
\* What the claims say about a task list, stated on the list itself.
IdsOf(tasks) == {tasks[i].id : i \in 1..Len(tasks)}

DistinctIds(tasks) == \A i, j \in 1..Len(tasks) : tasks[i].id = tasks[j].id => i = j

\* The dependency edges: <<X, Y>> when a task with id X lists Y.
DependsOn(tasks) ==
  {<<tasks[i].id, tasks[i].dependencies[k]>> :
     <<i, k>> \in {ik \in (1..Len(tasks)) \X (1..MaxDeps + 1) :
                     ik[2] <= Len(tasks[ik[1]].dependencies)}}

RECURSIVE TransitiveClosure(_)
TransitiveClosure(R) ==
  LET R2 == R \cup {<<pq[1][1], pq[2][2]>> : pq \in {x \in R \X R : x[1][2] = x[2][1]}}
  IN IF R2 = R THEN R ELSE TransitiveClosure(R2)

Reaches(tasks) == TransitiveClosure(DependsOn(tasks))

\* No dependency cycle, a self-dependency being a cycle.
Acyclic(tasks) == \A e \in Reaches(tasks) : e[1] # e[2]

Dangling(tasks) == {e \in DependsOn(tasks) : e[2] \notin IdsOf(tasks)}

\* order lists every task of tasks exactly once.
IsPermutation(order, tasks) ==
  /\ Len(order) = Len(tasks)
  /\ \A i \in 1..Len(tasks) : Cardinality({k \in 1..Len(order) : order[k] = i}) = 1

\* In order, every task comes strictly after every task it depends on.
DependenciesFirst(order, tasks) ==
  \A k \in 1..Len(order) : \A j \in 1..Len(tasks) :
    tasks[j].id \in Range(tasks[order[k]].dependencies)
      => \E m \in 1..(k - 1) : order[m] = j

\* The task list a payload describes: the id and the dependency ids of each
\* raw entry.
PayloadTasks(items) ==
  [k \in 1..Len(items) |->
     [id |-> items[k].id, dependencies |-> items[k].dependencies.items]]

\* No dangling dependency id, no self-dependency, no dependency cycle.
GraphHealthy(tasks) == Dangling(tasks) = {} /\ Acyclic(tasks)

\* The positions of the tasks that are pending and whose every dependency id
\* is the id of a completed task of the plan, in plan order.
RECURSIVE PositionsFrom(_, _, _)
PositionsFrom(S, k, n) ==
  IF k > n THEN <<>>
  ELSE (IF k \in S THEN <<k>> ELSE <<>>) \o PositionsFrom(S, k + 1, n)

ReadyPositions(p) ==
  {i \in 1..Len(p.tasks) :
     /\ p.tasks[i].status = "pending"
     /\ \A d \in Range(p.tasks[i].dependencies) :
          \E j \in 1..Len(p.tasks) :
            p.tasks[j].id = d /\ p.tasks[j].status = "completed"}

\* ---------------------------------------------------------------- claims
\* C1: getExecutableTasks(plan) returns exactly the tasks that are pending
\* and whose every dependency id is the id of a task of the plan with status
\* completed, in plan order.
C1_ExecutableTasksExact ==
  ret.op = "getExecutableTasks"
    => ret.val = PositionsFrom(ReadyPositions(plan), 1, Len(plan.tasks))

\* C2: for every task list whose dependency graph has no cycle,
\* topologicalSort returns a permutation of the input tasks in which every
\* task appears strictly after every task it depends on.
C2_TopologicalOrderOfAcyclic ==
  ret.op = "topologicalSort" /\ Acyclic(plan.tasks)
    => /\ IsPermutation(ret.val, plan.tasks)
       /\ DependenciesFirst(ret.val, plan.tasks)

\* C3: for every task list that contains a dependency cycle, topologicalSort
\* returns exactly |tasks| tasks, every input task exactly once.
C3_TopologicalOrderOfCyclic ==
  ret.op = "topologicalSort" /\ ~Acyclic(plan.tasks)
    => IsPermutation(ret.val, plan.tasks)

\* C4: for every task list without a dependency cycle (and without a
\* self-dependency), whatever its order and its dangling dependency ids,
\* detectCircularDependencies returns the empty list.
C4_NoCycleNothingReported ==
  ret.op = "detectCircularDependencies" /\ Acyclic(plan.tasks)
    => ret.val = <<>>

C4_Witness ==
  /\ ret.op = "detectCircularDependencies"
  /\ Acyclic(plan.tasks)
  /\ Len(plan.tasks) >= 2
  /\ Dangling(plan.tasks) # {}
  /\ DependsOn(plan.tasks) \ Dangling(plan.tasks) # {}

\* C5: for every task list in which A depends on B and B depends on A,
\* detectCircularDependencies reports 'A -> B' or 'B -> A'.  Stated here for
\* the task lists with pairwise distinct ids, which the claim includes.
C5_MutualCycleReported ==
  ret.op = "detectCircularDependencies" /\ DistinctIds(plan.tasks)
    => \A a, b \in IdsOf(plan.tasks) :
         a # b /\ <<a, b>> \in DependsOn(plan.tasks)
               /\ <<b, a>> \in DependsOn(plan.tasks)
           => <<a, b>> \in Range(ret.val) \/ <<b, a>> \in Range(ret.val)

\* C6: findInvalidDependencies reports the pair (task id, dependency id)
\* exactly when that task lists that dependency id and no task of the list
\* has that id.
C6_InvalidDependenciesExact ==
  ret.op = "findInvalidDependencies"
    => Range(ret.val) = Dangling(plan.tasks)

C6_Witness ==
  /\ ret.op = "findInvalidDependencies"
  /\ ret.val # <<>>
  /\ DependsOn(plan.tasks) \ Dangling(plan.tasks) # {}

\* C7: after removeTask(plan, i) with i in range, the id of the removed task
\* is in the dependencies of no remaining task.
C7_RemovedIdScrubbed ==
  ret.op = "removeTask" /\ ret.outcome = "removed"
    => \A k \in 1..Len(plan.tasks) :
         ret.removedId \notin Range(plan.tasks[k].dependencies)

C7_Witness ==
  /\ ret.op = "removeTask"
  /\ ret.outcome = "removed"
  /\ ret.referenced
  /\ Len(plan.tasks) >= 1

\* C8: modifyTask(plan, i, ...) leaves plan.tasks[i].id as it was, whatever
\* the reply holds, an id field included.
C8_ModifyKeepsId ==
  [][ret'.op = "modifyTask" /\ ret'.taskIndex >= 0 /\ ret'.taskIndex < Len(plan.tasks)
       => /\ Len(plan'.tasks) = Len(plan.tasks)
          /\ plan'.tasks[ret'.taskIndex + 1].id = plan.tasks[ret'.taskIndex + 1].id]_vars

C8_Witness ==
  /\ ret.op = "modifyTask"
  /\ ret.outcome = "modified"
  /\ ret.replyId # Undefined
  /\ ret.replyId # plan.tasks[ret.taskIndex + 1].id

\* C9: importPlan(exportPlan(plan)) yields a plan in which every task has
\* the status of the corresponding task of the original plan.
C9_RoundTripKeepsStatuses ==
  [][ret'.op = "importPlan"
       => /\ Len(plan'.tasks) = Len(plan.tasks)
          /\ \A k \in 1..Len(plan.tasks) :
               plan'.tasks[k].status = plan.tasks[k].status]_vars

\* C10: importPlan(exportPlan(plan)) yields a plan with the same task ids in
\* the same order and, for every task, the same dependency ids.
C10_RoundTripKeepsStructure ==
  [][ret'.op = "importPlan"
       => /\ Len(plan'.tasks) = Len(plan.tasks)
          /\ \A k \in 1..Len(plan.tasks) :
               /\ plan'.tasks[k].id = plan.tasks[k].id
               /\ plan'.tasks[k].dependencies = plan.tasks[k].dependencies]_vars

C10_Witness ==
  /\ ret.op = "importPlan"
  /\ Len(plan.tasks) >= 2
  /\ \E k \in 1..Len(plan.tasks) : plan.tasks[k].dependencies # <<>>

\* C11: for any input to the Plan Builder, an empty string, an empty JSON
\* object, a non-object and a payload whose tasks field is missing,
\* null-containing or no sequence included, the builder returns a plan that
\* contains at least one task.
C11_BuiltPlanHasTask ==
  ret.op = "createPlan" => Len(plan.tasks) >= 1

\* C12: while a task A is not completed (it failed, say), getExecutableTasks
\* returns no pending task B that lists A's id; once A is completed and A's id
\* is B's only dependency, getExecutableTasks returns B and does not return A.
C12_BlockedUntilCompleted ==
  ret.op = "getExecutableTasks"
    => \A a, b \in 1..Len(plan.tasks) :
         /\ a # b
         /\ plan.tasks[b].status = "pending"
         /\ plan.tasks[a].id \in Range(plan.tasks[b].dependencies)
         => /\ plan.tasks[a].status # "completed" => b \notin Range(ret.val)
            /\ plan.tasks[a].status = "completed"
                 /\ Len(plan.tasks[b].dependencies) = 1
               => b \in Range(ret.val) /\ a \notin Range(ret.val)

\* The same on the plans whose task ids are pairwise distinct.
C12_DistinctIdsOnly ==
  DistinctIds(plan.tasks) => C12_BlockedUntilCompleted

\* C13: modifyTask or removeTask with an index outside [0, tasks.length) and
\* updateTaskStatus with an id that no task has return the plan unchanged:
\* the same tasks in the same order, the same dependencies and statuses and
\* the same updated timestamp.
C13_InvalidReferenceNoOp ==
  [][/\ ret'.op \in {"modifyTask", "removeTask"}
        /\ (ret'.taskIndex < 0 \/ ret'.taskIndex >= Len(plan.tasks))
        => plan' = plan
     /\ ret'.op = "updateTaskStatus" /\ ret'.taskId \notin IdsOf(plan.tasks)
        => plan' = plan]_vars

C13_Witness ==
  /\ ret.op = "updateTaskStatus"
  /\ ret.taskId \notin IdsOf(plan.tasks)
  /\ Len(plan.tasks) >= 1
  /\ now > plan.updated

\* C14: if a plan has no dangling dependency reference, no self-dependency
\* and no dependency cycle, then after modifyTask, addTask or removeTask,
\* with any replacement or new-task payload, it still has none of them.
C14_MutatorKeepsGraphHealthy ==
  [][ret'.op \in {"modifyTask", "addTask", "removeTask"}
       /\ GraphHealthy(plan.tasks)
       => GraphHealthy(plan'.tasks)]_vars

\* The task lifecycle: the status changes the specification defines.
Lifecycle ==
  {<<"pending", "in-progress">>, <<"in-progress", "completed">>,
   <<"in-progress", "failed">>, <<"failed", "pending">>}

\* C15: every change of a task's status through updateTaskStatus, modifyTask
\* or plan execution is pending -> in-progress, in-progress -> completed,
\* in-progress -> failed or failed -> pending.
C15_StatusFollowsLifecycle ==
  [][ret'.op \in {"updateTaskStatus", "modifyTask", "executeTask"}
       => \A k \in 1..Len(plan.tasks) :
            \/ plan'.tasks[k].status = plan.tasks[k].status
            \/ <<plan.tasks[k].status, plan'.tasks[k].status>> \in Lifecycle]_vars

\* C16: in every reachable state, plan.status is completed only if every
\* task of the plan has status completed.
C16_CompletedPlanAllCompleted ==
  plan.status = "completed"
    => \A k \in 1..Len(plan.tasks) : plan.tasks[k].status = "completed"

\* The status changes of a plan the specification defines.
PlanLifecycle ==
  {<<"draft", "approved">>, <<"approved", "executing">>,
   <<"executing", "completed">>, <<"executing", "failed">>}

\* C17: in the review-and-execute workflow plan.status changes only along
\* draft -> approved -> executing -> completed or failed, and once it is
\* completed or failed neither the plan status nor any task status changes.
C17_PlanStatusFollowsLifecycle ==
  [][/\ \/ plan'.status = plan.status
        \/ <<plan.status, plan'.status>> \in PlanLifecycle
     /\ plan.status \in {"completed", "failed"} => plan' = plan]_vars

C17_Witness ==
  /\ plan.status = "completed"
  /\ ret.op = "executePlanEnd"
  /\ Len(plan.tasks) >= 2

\* C18: once executePlan gets a failure result for a task it sets plan.status
\* to failed and executes no further task: every task after the failing one
\* keeps the status it had.
C18_HaltsAtFirstFailure ==
  [][/\ ret'.op = "executeTask" /\ ~ret'.success
        => /\ plan'.status = "failed"
           /\ Len(plan'.tasks) = Len(plan.tasks)
           /\ \A k \in (ret'.index + 2)..Len(plan.tasks) :
                plan'.tasks[k] = plan.tasks[k]
     /\ plan.status = "failed" => plan'.tasks = plan.tasks]_vars

C18_Witness ==
  /\ ret.op = "executeTask"
  /\ ~ret.success
  /\ plan.status = "failed"
  /\ ret.index + 1 < Len(plan.tasks)
  /\ plan.tasks[Len(plan.tasks)].status = "pending"

\* C19: importPlan given text that is not valid JSON, or JSON that cannot be
\* interpreted as a plan (JSON that is no object), raises an error to its
\* caller and returns no plan.
C19_UnreadableImportRaises ==
  ret.op = "importPlan" /\ (~ret.valid \/ ret.json # "object")
    => ret.outcome = "raised"

\* The plan is the one createFallbackPlan builds.
IsFallback(p) == p.title = "Manual Implementation Plan"

\* C20: for every task the Plan Builder produces from a parsable payload,
\* status is pending whatever the payload gives; priority is the payload's
\* value when it is low, medium or high and medium otherwise; estimatedTime
\* is "30 minutes" when absent; files and dependencies are the payload's
\* sequences, and empty when absent or no sequences.
C20_BuiltTaskDefaults ==
  ret.op = "createPlan" /\ ret.reply.tasks.kind = "array" /\ ~IsFallback(plan)
    => /\ Len(plan.tasks) = Len(ret.reply.tasks.items)
       /\ \A k \in 1..Len(plan.tasks) :
            LET raw == ret.reply.tasks.items[k]
                task == plan.tasks[k]
            IN /\ task.status = "pending"
               /\ task.priority = IF raw.priority \in {"low", "medium", "high"}
                                    THEN raw.priority ELSE "medium"
               /\ raw.estimatedTime = Undefined => task.estimatedTime = "30 minutes"
               /\ task.files = IF raw.files.arr THEN raw.files.items ELSE <<>>
               /\ task.dependencies = IF raw.dependencies.arr
                                        THEN raw.dependencies.items ELSE <<>>

C20_Witness ==
  /\ ret.op = "createPlan"
  /\ ret.reply.tasks.kind = "array"
  /\ ~IsFallback(plan)
  /\ Len(plan.tasks) = 2
  /\ ret.reply.tasks.items[1].status = "completed"
  /\ ret.reply.tasks.items[1].priority = "urgent"
  /\ ret.reply.tasks.items[1].dependencies.arr
  /\ ret.reply.tasks.items[2].priority = "low"
  /\ ~ret.reply.tasks.items[2].files.arr
  /\ ret.reply.tasks.items[2].estimatedTime = Undefined

\* C21: when the generation payload is absent, empty or cannot be parsed,
\* the builder returns a draft plan with exactly one task, whose description
\* is the requirement text, with priority high, estimatedTime "60 minutes",
\* status pending and no dependencies.
C21_FallbackPlan ==
  ret.op = "createPlan" /\ ret.reply.kind \in {"none", "garbage"}
    => /\ plan.status = "draft"
       /\ Len(plan.tasks) = 1
       /\ plan.tasks[1].description = Requirements
       /\ plan.tasks[1].priority = "high"
       /\ plan.tasks[1].estimatedTime = "60 minutes"
       /\ plan.tasks[1].status = "pending"
       /\ plan.tasks[1].dependencies = <<>>

C21_Witness ==
  /\ ret.op = "createPlan"
  /\ ret.reply.kind = "garbage"
  /\ Len(plan.tasks) = 1

\* C22: in every plan produced by the Plan Builder or by any sequence of Plan
\* Mutator operations, all task ids are pairwise distinct.
C22_TaskIdsDistinct ==
  DistinctIds(plan.tasks)

\* C23: in every reachable plan, no task's dependencies contain that task's
\* own id.
C23_NoSelfDependency ==
  \A k \in 1..Len(plan.tasks) :
    plan.tasks[k].id \notin Range(plan.tasks[k].dependencies)

\* C24: every mutation of the plan (a successful modifyTask, addTask or
\* removeTask, every change of a task's status or of the plan's status, those
\* made during plan execution included) made after the clock has moved past
\* plan.updated strictly advances plan.updated, and plan.updated is never
\* earlier than plan.created.
C24_UpdatedRefreshed ==
  [][/\ /\ plan # NoPlan
        /\ plan'.tasks # plan.tasks \/ plan'.status # plan.status
        /\ now > plan.updated
        => plan'.updated > plan.updated
     /\ plan'.updated >= plan'.created]_vars

\* C25: for a parsable payload whose tasks contain a dependency cycle or a
\* dangling dependency id, the Plan Builder returns not the fallback plan but
\* a plan with every task of the payload and each dependency list exactly as
\* given, and the validators leave the task list unmodified.
C25_GraphDefectsKept ==
  [][/\ ret'.op = "createPlan"
        /\ ~GraphHealthy(PayloadTasks(ret'.reply.tasks.items))
        => /\ ~IsFallback(plan')
           /\ Len(plan'.tasks) = Len(ret'.reply.tasks.items)
           /\ \A k \in 1..Len(plan'.tasks) :
                /\ plan'.tasks[k].id = ret'.reply.tasks.items[k].id
                /\ plan'.tasks[k].dependencies
                     = ret'.reply.tasks.items[k].dependencies.items
     /\ ret'.op \in {"detectCircularDependencies", "findInvalidDependencies"}
        => plan' = plan]_vars

C25_Witness ==
  /\ ret.op = "detectCircularDependencies"
  /\ ret.val # <<>>
  /\ ~Acyclic(plan.tasks)
  /\ Dangling(plan.tasks) # {}
  /\ Len(plan.tasks) >= 2

\* C26: during plan execution a task is started only when every id in its
\* dependencies is the id of a task whose status is completed.
C26_RunsAfterDependencies ==
  [][ret'.op = "executeTask"
       => \A d \in Range(plan.tasks[ret'.index + 1].dependencies) :
            \E j \in 1..Len(plan.tasks) :
              plan.tasks[j].id = d /\ plan.tasks[j].status = "completed"]_vars

\* C27: every edge 'X -> Y' that detectCircularDependencies reports is part
\* of a cycle: Y is in X's dependencies and X is reachable from Y along
\* dependency edges.
C27_ReportedEdgesOnCycles ==
  ret.op = "detectCircularDependencies"
    => \A e \in Range(ret.val) :
         /\ e \in DependsOn(plan.tasks)
         /\ e[1] = e[2] \/ <<e[2], e[1]>> \in Reaches(plan.tasks)

\* The same on the plans whose task ids are pairwise distinct.
C27_DistinctIdsOnly ==
  DistinctIds(plan.tasks) => C27_ReportedEdgesOnCycles

\* C28: detectCircularDependencies terminates on every finite task list,
\* with or without cycles, self-dependencies and dangling ids, and expands
\* the dependency list of each task id at most once during one call.
C28_ExpandsEachIdOnce ==
  ret.op = "detectCircularDependencies"
    => /\ \A i, j \in 1..Len(ret.expanded) :
            ret.expanded[i] = ret.expanded[j] => i = j
       /\ IdsOf(plan.tasks) \subseteq Range(ret.expanded)

C28_Witness ==
  /\ ret.op = "detectCircularDependencies"
  /\ ~Acyclic(plan.tasks)
  /\ Dangling(plan.tasks) # {}
  /\ Len(ret.expanded) >= 3

\* C29: for a parsable payload whose tasks field is a sequence (of task
\* objects), the built plan has exactly one task per raw entry, in the same
\* order, even when entries fail per-task validation (missing, empty or
\* wrongly typed title, description, priority or estimatedTime).
C29_OneTaskPerEntry ==
  /\ ret.op = "createPlan"
  /\ ret.reply.tasks.kind = "array"
  /\ \A k \in 1..Len(ret.reply.tasks.items) :
        ret.reply.tasks.items[k].kind = "object"
  => /\ ~IsFallback(plan)
     /\ Len(plan.tasks) = Len(ret.reply.tasks.items)
     /\ \A k \in 1..Len(ret.reply.tasks.items) :
          ret.reply.tasks.items[k].id # Undefined
            => plan.tasks[k].id = ret.reply.tasks.items[k].id

\* C30: a successful addTask appends exactly one task at the end of
\* plan.tasks, with status pending and an id different from the id of every
\* task already in the plan, and leaves every previously existing task
\* unchanged in position and content.
C30_AddTaskAppendsOne ==
  [][ret'.op = "addTask" /\ ret'.outcome = "added"
       => /\ Len(plan'.tasks) = Len(plan.tasks) + 1
          /\ SubSeq(plan'.tasks, 1, Len(plan.tasks)) = plan.tasks
          /\ plan'.tasks[Len(plan'.tasks)].status = "pending"
          /\ plan'.tasks[Len(plan'.tasks)].id \notin IdsOf(plan.tasks)]_vars

C30_Witness ==
  /\ ret.op = "addTask"
  /\ ret.outcome = "added"
  /\ Len(plan.tasks) = 2
  /\ plan.tasks[1].id \in EditIds
  /\ plan.tasks[2].status = "pending"
  /\ plan.tasks[2].dependencies = <<plan.tasks[1].id>>

\* C31: when the reply to modifyTask or addTask is empty or contains no
\* parsable JSON object, the operation raises no error and returns the plan
\* unchanged: same tasks, same fields, same statuses and the same updated
\* timestamp.
C31_UnparsedReplyKeepsPlan ==
  [][ret'.op \in {"modifyTask", "addTask"}
       /\ ret'.reply \in {"garbage", "number", "null"}
       => plan' = plan]_vars

\* C32: validateRequirements reports isValid = false whenever the model's
\* reply has the form "INVALID: <feedback>", so gatherAndValidateRequirements
\* never returns requirements that the model judged INVALID.
C32_InvalidNeverReturned ==
  ret.op = "gatherAndValidateRequirements"
    /\ startsWith(ret.validation, <<"I", "N", "V", "A", "L", "I", "D", ":">>)
    => ~ret.judged /\ ret.returned = Undefined

\* C33: for each task, plan execution requests code generation at most
\* twice (the first attempt and at most one retry): if the retried
\* implementation fails verification the task is set to failed without
\* another question to the user, and the 'review' choice asks the user again
\* without generating again.
C33_AtMostTwoGenerations ==
  ret.op = "executeTask"
    => /\ ret.generations \in {1, 2}
       /\ ret.generations = 2 <=> ret.path \in {"retry verified", "retry rejected"}
       /\ ret.path = "retry rejected"
            => /\ plan.tasks[ret.index + 1].status = "failed"
               /\ ~ret.success
       /\ ret.asked > 1 => ret.generations = IF ret.path \in {"accept", "skip"}
                                               THEN 1 ELSE 2

C33_Witness ==
  /\ ret.op = "executeTask"
  /\ ret.path = "retry rejected"
  /\ ret.asked = 2
  /\ ret.generations = 2
  /\ plan.tasks[ret.index + 1].status = "failed"

\* C34: for a plan with pairwise distinct ids, an acyclic dependency graph,
\* no dangling references and all tasks pending, a driver that repeatedly
\* takes any task returned by getExecutableTasks and sets it to completed
\* eventually makes every task completed; in every intermediate state that
\* still has a pending task, getExecutableTasks is non-empty.
C34_Progress ==
  /\ [](plan # NoPlan /\ DistinctIds(plan.tasks) /\ GraphHealthy(plan.tasks)
          /\ (\E k \in 1..Len(plan.tasks) : plan.tasks[k].status = "pending")
        => getExecutableTasks(plan) # <<>>)
  /\ ((plan # NoPlan /\ DistinctIds(plan.tasks) /\ GraphHealthy(plan.tasks))
        ~> (plan # NoPlan
            /\ \A k \in 1..Len(plan.tasks) : plan.tasks[k].status = "completed"))

C34_Witness ==
  /\ ret.op = "driver"
  /\ DistinctIds(plan.tasks) /\ GraphHealthy(plan.tasks)
  /\ Len(plan.tasks) = 2
  /\ plan.tasks[1].dependencies = <<plan.tasks[2].id>>
  /\ \A k \in 1..Len(plan.tasks) : plan.tasks[k].status = "completed"

\* The dependency edges between positions: <<i, j>> when the task at i lists
\* the id of the task at j.
DependsOnPosition(tasks) ==
  {ij \in (1..Len(tasks)) \X (1..Len(tasks)) :
     tasks[ij[2]].id \in Range(tasks[ij[1]].dependencies)}

\* The task at position k lies on a dependency cycle, depends transitively
\* on a task that does, or lists an id that no task has.
Defective(tasks, k) ==
  LET reach == TransitiveClosure(DependsOnPosition(tasks))
  IN \/ <<k, k>> \in reach
     \/ \E j \in 1..Len(tasks) : <<k, j>> \in reach /\ <<j, j>> \in reach
     \/ \E d \in Range(tasks[k].dependencies) : d \notin IdsOf(tasks)

\* C35: a pending task that lies on a dependency cycle (a self-dependency
\* included), depends transitively on such a task, or has a dangling
\* dependency id is never returned by getExecutableTasks in any state reached
\* by completing only tasks that getExecutableTasks returned; such a plan
\* never reaches the state where all tasks are completed.
C35_DefectiveNeverExecutable ==
  plan # NoPlan
    => /\ \A k \in Range(getExecutableTasks(plan)) : ~Defective(plan.tasks, k)
       /\ (\E k \in 1..Len(plan.tasks) : Defective(plan.tasks, k))
            => \E k \in 1..Len(plan.tasks) : plan.tasks[k].status # "completed"

C35_DistinctIdsOnly ==
  plan # NoPlan /\ DistinctIds(plan.tasks) => C35_DefectiveNeverExecutable

\* C36: whenever executePlan ends with plan.status = failed, at least one
\* task of the plan has status failed.
C36_FailedPlanHasFailedTask ==
  exec.pc = "done" /\ plan.status = "failed"
    => \E k \in 1..Len(plan.tasks) : plan.tasks[k].status = "failed"

\* C37: in the output of topologicalSort on a task list with pairwise
\* distinct ids that contains cycles, a task appears before one of its
\* dependencies only if that task and that dependency lie on a common
\* dependency cycle; every dependency edge that is on no cycle is respected.
C37_OnlyCycleEdgesBroken ==
  ret.op = "topologicalSort" /\ DistinctIds(plan.tasks) /\ ~Acyclic(plan.tasks)
    => \A a, b \in 1..Len(ret.val) :
         LET task == plan.tasks[ret.val[a]]
             dep == plan.tasks[ret.val[b]]
         IN dep.id \in Range(task.dependencies) /\ a <= b
              => <<dep.id, task.id>> \in Reaches(plan.tasks) \/ dep.id = task.id

C37_Witness ==
  /\ ret.op = "topologicalSort"
  /\ DistinctIds(plan.tasks)
  /\ Len(plan.tasks) = 2
  /\ plan.tasks[1].dependencies = <<plan.tasks[1].id, plan.tasks[2].id>>
  /\ plan.tasks[2].dependencies = <<>>
  /\ ret.val = <<2, 1>>

\* C38: for every plan whose task ids are pairwise distinct,
\* getExecutableTaskIds(plan) equals the sequence of ids of the tasks
\* getExecutableTasks(plan) returns, in the same order; neither call
\* modifies the plan.
C38_IdsEqualHelper ==
  [][/\ ret'.op \in {"getExecutableTaskIds", "getExecutableTasks"} => plan' = plan
     /\ ret'.op = "getExecutableTaskIds" /\ DistinctIds(plan.tasks)
          => ret'.val = ret'.helper]_vars

C38_Witness ==
  /\ ret.op = "getExecutableTaskIds"
  /\ DistinctIds(plan.tasks)
  /\ Len(plan.tasks) = 2
  /\ plan.tasks[1].dependencies = <<plan.tasks[2].id>>
  /\ plan.tasks[1].status = "pending"
  /\ plan.tasks[2].status = "completed"
  /\ ret.val = <<plan.tasks[1].id>>

C40_EditsOnlyInDraft ==
  [][/\ ret'.op \in {"modifyTask", "addTask", "removeTask"}
          => plan.status = "draft" /\ plan'.status = "draft"
     /\ ret'.op = "executePlan" => plan.status = "approved"
     /\ plan.status \in {"executing", "completed", "failed"}
          => /\ plan'.status \in {"executing", "completed", "failed"}
             /\ ret'.op # "executePlan"]_vars

C40_Witness ==
  /\ ret.op = "executePlan"
  /\ plan.status = "executing"
  /\ Len(plan.tasks) = 2
  /\ plan.tasks[1].status = "completed"
  /\ plan.tasks[2].status = "pending"

====
